---------------------------- MODULE Spec2Model ----------------------------
(***************************************************************************)
(* A model of gammarers/aws-lambda-function-log-notification-stack.        *)
(*                                                                         *)
(*   - the alert-composition state machine of src/src/index.ts (the chain  *)
(*     of Pass / Choice / SnsPublish states that starts at Init),          *)
(*   - the notification function of src/src/funcs/notification.lambda.ts,  *)
(*   - the wiring of the two stack variants (src/src/index.ts, which       *)
(*     defines the state machine, and src/unnamed/part_001, which defines  *)
(*     the subscription filter).                                           *)
(*   - several executions of the state machine side by side, and the       *)
(*     notification topic with its email subscriptions.                    *)
(*                                                                         *)
(* A JSON path that may be absent from a document is modelled as a tuple   *)
(* of length 0 (absent) or 1 (present, holding the value).                 *)
(***************************************************************************)
EXTENDS Integers, Sequences, FiniteSets, Bags, TLC

VARIABLES
    exec,        \* the state document of one execution of the state machine
    published,   \* the publish calls the topic has received, in order
    visited,     \* the states the execution has entered, in order
    call,        \* one invocation of the notification function
    sent,        \* the JSON document the invoker encoded into the event, if any
    stack,       \* the resources the stack's constructor declared
    pending,     \* invocations of the notification function not yet run
    bus,         \* invocation-result events on the default event bus, not yet matched
    lastPut,     \* the last batch written to a log group, and what became of it
    lastRouted,  \* the last event matched against the rules, and what it started
    executions,  \* the number of executions of the state machine started
    ops,         \* the number of batches written and direct invocations made
    runs,        \* the state documents of executions running side by side, by name
    calls,       \* the publish calls of those executions, in the order the topic got them
    topic,       \* the topic under construction: its subscriptions so far
    accepted,    \* the {subject, message} pairs published to the constructed topic
    inbox        \* the deliveries the topic made: one address and one pair each

wfVars == <<exec, published, visited>>
handlerVars == <<call, sent>>
stackVars == <<stack, pending, bus, lastPut, lastRouted, executions, ops>>
runsVars == <<runs, calls>>
topicVars == <<topic, accepted, inbox>>
vars == <<wfVars, handlerVars, stackVars, runsVars, topicVars>>

(***************************************************************************)
(* Bounds of the model.                                                    *)
(***************************************************************************)
MaxEvents == 2       \* longest logEvents array of a workflow input
MaxLines == 2        \* longest stackTrace array of a log entry

Frames == {"frame1", "frame2"}

None == <<>>
Some(v) == <<v>>
IsSome(o) == Len(o) = 1
Get(o) == o[1]

RECURSIVE SeqsUpTo(_, _)
SeqsUpTo(S, n) ==
    IF n = 0 THEN {<<>>}
    ELSE LET shorter == SeqsUpTo(S, n - 1)
         IN  shorter \cup {Append(s, e) : s \in {t \in shorter : Len(t) = n - 1}, e \in S}

(***************************************************************************)
(* Workflow input: the routed event.  $.detail.responsePayload.logEvents   *)
(* is an array of entries; an entry's message is a string, modelled by the *)
(* JSON document it denotes (absent when the string is not JSON text).     *)
(* The k-th entry of a batch carries its own timestamp and request id.     *)
(***************************************************************************)
EntryKinds == {"ok", "badjson", "nostack"}

ParsedDoc(k, kind, lines) ==
    [timestamp |-> "ts-" \o ToString(k),
     requestId |-> "req-" \o ToString(k),
     message   |-> [errorType    |-> "Err" \o ToString(k),
                    errorMessage |-> "msg-" \o ToString(k),
                    stackTrace   |-> IF kind = "nostack" THEN None ELSE Some(lines)]]

LogEvent(k, kind, lines) ==
    [message |-> IF kind = "badjson" THEN None ELSE Some(ParsedDoc(k, kind, lines))]

\* The stack traces of the inputs: every list of at most MaxLines frames, and
\* the three-frame list of the specification's example.
StackTraces == SeqsUpTo(Frames, MaxLines) \cup {<<"frame1", "frame2", "frame3">>}

EntryShapes ==
    {<<"ok", l>> : l \in StackTraces} \cup {<<"badjson", <<>>>>, <<"nostack", <<>>>>}

Batches ==
    {[k \in 1..Len(s) |-> LogEvent(k, s[k][1], s[k][2])] : s \in SeqsUpTo(EntryShapes, MaxEvents)}

RoutedEvent(batch) ==
    [account   |-> "123456789012",
     region    |-> "us-east-1",
     logGroup  |-> "example-function-log",
     logStream |-> "stream-1",
     logEvents |-> batch]

(***************************************************************************)
(* The state document at the start of an execution: the input event and    *)
(* none of the paths the states write.                                     *)
(***************************************************************************)
StartExecution(event) ==
    [pc                              |-> "Init",
     input                           |-> event,
     Temp_Log                        |-> None,   \* $.Temp.Log
     Temp_StackTrace_Lines           |-> None,   \* $.Temp.StackTrace.Lines
     Temp_GetStackTrace_Line         |-> None,   \* $.Temp.GetStackTrace.Line
     Prepare_Concatenated_StackTrace |-> None,   \* $.Prepare.Concatenated.StackTrace
     Prepare_Sns_Topic               |-> None,   \* $.Prepare.Sns.Topic
     Result_Sns_Topic                |-> None,   \* $.Result.Sns.Topic
     TempStackTrace_Lines            |-> None,   \* $.TempStackTrace.Lines
     error                           |-> None]

\* A state whose Parameters name a path absent from the document, or whose
\* intrinsic function rejects its argument, fails the execution: no state of
\* the chain declares a Retry or a Catch.
Fail(x, state, err) == [x EXCEPT !.pc = "Failed", !.error = Some([state |-> state, error |-> err])]

\* $.Temp.Log as an object of optional members.
TempLog(events, event, parsed) == Some([Events |-> events, Event |-> event, Parsed |-> parsed])

HasEvents(x) == IsSome(x.Temp_Log) /\ IsSome(Get(x.Temp_Log).Events)
HasEvent(x) == IsSome(x.Temp_Log) /\ IsSome(Get(x.Temp_Log).Event)
HasParsed(x) == IsSome(x.Temp_Log) /\ IsSome(Get(x.Temp_Log).Parsed)

------------------------------------------------------------------------------
(***************************************************************************)
(* The states of the chain, each a transformation of the state document.   *)
(***************************************************************************)

\* Init: result '' at $.Prepare.Concatenated.StackTrace.
init(x) == [x EXCEPT !.Prepare_Concatenated_StackTrace = Some(""), !.pc = "GetLogEvents"]

\* GetLogEvents: {Events: $.detail.responsePayload.logEvents} at $.Temp.Log.
getLogEvents(x) ==
    [x EXCEPT !.Temp_Log = TempLog(Some(x.input.logEvents), None, None),
              !.pc = "CheckUntreatedLogEventDetailExist"]


\* A variant of CheckUntreatedLogEventDetailExist that tests the array, not
\* its element 0: isPresent($.Temp.Log.Events).
checkUntreatedLogEventDetailExist_ArrayPresent(x) ==
    IF HasEvents(x)
    THEN [x EXCEPT !.pc = "GetLogEventDetail"]
    ELSE [x EXCEPT !.pc = "Succeed"]

\* CheckUntreatedLogEventDetailExist: isPresent($.Temp.Log.Events[0]).
checkUntreatedLogEventDetailExist(x) ==
    IF HasEvents(x) /\ Len(Get(Get(x.Temp_Log).Events)) >= 1
    THEN [x EXCEPT !.pc = "GetLogEventDetail"]
    ELSE [x EXCEPT !.pc = "Succeed"]

\* GetLogEventDetail: {Detail: States.ArrayGetItem($.Temp.Log.Events, 0)} at
\* $.Temp.Log.Event.
getLogEventDetail(x) ==
    IF ~HasEvents(x) \/ Len(Get(Get(x.Temp_Log).Events)) = 0
    THEN Fail(x, "GetLogEventDetail", "States.Runtime")
    ELSE LET log == Get(x.Temp_Log)
         IN  [x EXCEPT !.Temp_Log = TempLog(log.Events, Some([Detail |-> Get(log.Events)[1]]), log.Parsed),
                       !.pc = "GetLogEventMessage"]

\* GetLogEventMessage: {Parsed: States.StringToJson($.Temp.Log.Event.Detail.message)}
\* at $.Temp.Log, which replaces the whole of $.Temp.Log.
getLogEventMessage(x) ==
    IF ~HasEvent(x) \/ ~IsSome(Get(Get(x.Temp_Log).Event).Detail.message)
    THEN Fail(x, "GetLogEventMessage", "States.Runtime")
    ELSE [x EXCEPT !.Temp_Log = TempLog(None, None, Some(Get(Get(Get(x.Temp_Log).Event).Detail.message))),
                   !.pc = "GetLogEventMessageStackTrace"]

\* GetLogEventMessageStackTrace: {Lines: $.Temp.Log.Parsed.message.stackTrace}
\* at $.Temp.StackTrace.
getLogEventMessageStackTrace(x) ==
    IF ~HasParsed(x) \/ ~IsSome(Get(Get(x.Temp_Log).Parsed).message.stackTrace)
    THEN Fail(x, "GetLogEventMessageStackTrace", "States.Runtime")
    ELSE [x EXCEPT !.Temp_StackTrace_Lines = Some(Get(Get(Get(x.Temp_Log).Parsed).message.stackTrace)),
                   !.pc = "CheckUntreatedMessageStackTraceLinesExist"]

\* CheckUntreatedMessageStackTraceLinesExist: isPresent($.Temp.StackTrace.Lines[0]).
checkUntreatedMessageStackTraceLinesExist(x) ==
    IF IsSome(x.Temp_StackTrace_Lines) /\ Len(Get(x.Temp_StackTrace_Lines)) >= 1
    THEN [x EXCEPT !.pc = "GetLogEventMessageStackTraceLine"]
    ELSE [x EXCEPT !.pc = "PrepareMessage"]

\* GetLogEventMessageStackTraceLine: {Line: States.ArrayGetItem($.Temp.StackTrace.Lines, 0)}
\* at $.Temp.GetStackTrace.
getLogEventMessageStackTraceLine(x) ==
    IF ~IsSome(x.Temp_StackTrace_Lines) \/ Len(Get(x.Temp_StackTrace_Lines)) = 0
    THEN Fail(x, "GetLogEventMessageStackTraceLine", "States.Runtime")
    ELSE [x EXCEPT !.Temp_GetStackTrace_Line = Some(Get(x.Temp_StackTrace_Lines)[1]),
                   !.pc = "ConcatenateStackTraceLine"]


\* A variant of ConcatenateStackTraceLine with the arguments of States.Format
\* exchanged: the line comes before the accumulator.
concatenateStackTraceLine_Prepend(x) ==
    IF ~IsSome(x.Prepare_Concatenated_StackTrace) \/ ~IsSome(x.Temp_GetStackTrace_Line)
    THEN Fail(x, "ConcatenateStackTraceLine", "States.Runtime")
    ELSE [x EXCEPT !.Prepare_Concatenated_StackTrace =
                        Some(Get(x.Temp_GetStackTrace_Line) \o Get(x.Prepare_Concatenated_StackTrace) \o "\n"),
                   !.pc = "UntreatedMessageTraceLines"]

\* A variant of ConcatenateStackTraceLine that starts over when the accumulator
\* already holds a line.
concatenateStackTraceLine_StartOver(x) ==
    IF ~IsSome(x.Prepare_Concatenated_StackTrace) \/ ~IsSome(x.Temp_GetStackTrace_Line)
    THEN Fail(x, "ConcatenateStackTraceLine", "States.Runtime")
    ELSE [x EXCEPT !.Prepare_Concatenated_StackTrace =
                        Some(IF Get(x.Prepare_Concatenated_StackTrace) = ""
                             THEN Get(x.Temp_GetStackTrace_Line) \o "\n" ELSE ""),
                   !.pc = "UntreatedMessageTraceLines"]

\* ConcatenateStackTraceLine: {StackTrace: States.Format('{}{}\n',
\* $.Prepare.Concatenated.StackTrace, $.Temp.GetStackTrace.Line)} at
\* $.Prepare.Concatenated.
concatenateStackTraceLine(x) ==
    IF ~IsSome(x.Prepare_Concatenated_StackTrace) \/ ~IsSome(x.Temp_GetStackTrace_Line)
    THEN Fail(x, "ConcatenateStackTraceLine", "States.Runtime")
    ELSE [x EXCEPT !.Prepare_Concatenated_StackTrace =
                        Some(Get(x.Prepare_Concatenated_StackTrace) \o Get(x.Temp_GetStackTrace_Line) \o "\n"),
                   !.pc = "UntreatedMessageTraceLines"]

\* UntreatedMessageTraceLines: {Lines: $.Temp.StackTrace.Lines[1:]} at $.Temp.StackTrace.
getUntreatedMessageTraceLines(x) ==
    IF ~IsSome(x.Temp_StackTrace_Lines)
    THEN Fail(x, "UntreatedMessageTraceLines", "States.Runtime")
    ELSE LET lines == Get(x.Temp_StackTrace_Lines)
         IN  [x EXCEPT !.Temp_StackTrace_Lines = Some(IF Len(lines) = 0 THEN <<>> ELSE Tail(lines)),
                       !.pc = "CheckUntreatedMessageStackTraceLinesExist"]

\* The two States.Format templates of PrepareMessage.  {U+1F635} stands for the
\* one character the subject starts with.
FormatSubject(account, region) ==
    "{U+1F635}[Failure] AWS Lambda Function Invocation Error Log Found [" \o account \o "][" \o region \o "]"

FormatMessage(account, region, logGroup, logStream, timestamp, requestId, errorType, errorMessage, stackTrace) ==
    "Account : " \o account \o "\nRegion : " \o region \o "\nLogGroup : " \o logGroup
        \o "\nLogStream : " \o logStream \o "\nTimestamp : " \o timestamp
        \o "\nRequestId : " \o requestId \o "\nErrorType : " \o errorType
        \o "\nErrorMessage : " \o errorMessage \o "\nStackTrace : \n" \o stackTrace

\* PrepareMessage: {Subject, Message} at $.Prepare.Sns.Topic.
prepareMessage(x) ==
    IF ~HasParsed(x) \/ ~IsSome(x.Prepare_Concatenated_StackTrace)
    THEN Fail(x, "PrepareMessage", "States.Runtime")
    ELSE LET p == Get(Get(x.Temp_Log).Parsed)
         IN  [x EXCEPT !.Prepare_Sns_Topic =
                            Some([Subject |-> FormatSubject(x.input.account, x.input.region),
                                  Message |-> FormatMessage(x.input.account, x.input.region,
                                                            x.input.logGroup, x.input.logStream,
                                                            p.timestamp, p.requestId,
                                                            p.message.errorType, p.message.errorMessage,
                                                            Get(x.Prepare_Concatenated_StackTrace))]),
                       !.pc = "SendNotification"]

\* SendNotification: publishes $.Subject and $.Message of $.Prepare.Sns.Topic;
\* the call's result goes to $.Result.Sns.Topic.  sendNotification is the
\* state's effect on the document, PublishCall the call it makes.
sendNotification(x) ==
    IF ~IsSome(x.Prepare_Sns_Topic)
    THEN Fail(x, "SendNotification", "States.Runtime")
    ELSE [x EXCEPT !.Result_Sns_Topic = Some("MessageId"), !.pc = "GetUntreatedMessages"]

PublishCall(x) == IF IsSome(x.Prepare_Sns_Topic) THEN <<Get(x.Prepare_Sns_Topic)>> ELSE <<>>

\* GetUntreatedMessages: {Lines: $.TempStackTrace.Lines[1:]} at $.TempStackTrace.
getUntreatedMessages(x) ==
    IF ~IsSome(x.TempStackTrace_Lines)
    THEN Fail(x, "GetUntreatedMessages", "States.Runtime")
    ELSE LET lines == Get(x.TempStackTrace_Lines)
         IN  [x EXCEPT !.TempStackTrace_Lines = Some(IF Len(lines) = 0 THEN <<>> ELSE Tail(lines)),
                       !.pc = "CheckUntreatedLogEventDetailExist"]

------------------------------------------------------------------------------
(***************************************************************************)
(* The notification function (src/src/funcs/notification.lambda.ts).       *)
(*                                                                         *)
(* Text is a sequence of characters, a buffer a sequence of bytes 0..255.  *)
(***************************************************************************)
MaxItems == 2        \* longest array of a JSON document of the inputs
MaxTextLen == 3      \* longest text of the inputs that is not built from a document

\* ---- JSON documents -------------------------------------------------------
\* Every document has the same fields; t says which of them holds its value.
JsonValue(t, b, n, s, items, members) ==
    [t |-> t, b |-> b, n |-> n, s |-> s, items |-> items, members |-> members]
JNull == JsonValue("null", FALSE, 0, <<>>, <<>>, <<>>)
JBool(b) == JsonValue("bool", b, 0, <<>>, <<>>, <<>>)
JNum(n) == JsonValue("num", FALSE, n, <<>>, <<>>, <<>>)
JStr(cs) == JsonValue("str", FALSE, 0, cs, <<>>, <<>>)
JArr(vs) == JsonValue("arr", FALSE, 0, <<>>, vs, <<>>)
\* members: a sequence of [key, value], in the order of the object's keys
JObj(kvs) == JsonValue("obj", FALSE, 0, <<>>, <<>>, kvs)
Member(k, v) == [key |-> k, value |-> v]

Digits == <<"0", "1", "2", "3", "4", "5", "6", "7", "8", "9">>
IsDigit(c) == \E i \in 1..10 : Digits[i] = c
DigitValue(c) == (CHOOSE i \in 1..10 : Digits[i] = c) - 1

RECURSIVE NumberText(_)
NumberText(n) == IF n < 10 THEN <<Digits[n + 1]>> ELSE NumberText(n \div 10) \o <<Digits[(n % 10) + 1]>>

\* JSON.stringify of a document (no indentation).
RECURSIVE Stringify(_)
RECURSIVE StringifyItems(_)
RECURSIVE StringifyMembers(_)
Stringify(d) ==
    CASE d.t = "null" -> <<"n", "u", "l", "l">>
      [] d.t = "bool" -> IF d.b THEN <<"t", "r", "u", "e">> ELSE <<"f", "a", "l", "s", "e">>
      [] d.t = "num"  -> NumberText(d.n)
      [] d.t = "str"  -> <<"\"">> \o d.s \o <<"\"">>
      [] d.t = "arr"  -> <<"[">> \o StringifyItems(d.items) \o <<"]">>
      [] d.t = "obj"  -> <<"{">> \o StringifyMembers(d.members) \o <<"}">>
StringifyItems(vs) ==
    IF vs = <<>> THEN <<>>
    ELSE Stringify(vs[1]) \o (IF Len(vs) = 1 THEN <<>> ELSE <<",">> \o StringifyItems(Tail(vs)))
StringifyMembers(kvs) ==
    IF kvs = <<>> THEN <<>>
    ELSE <<"\"">> \o kvs[1].key \o <<"\"", ":">> \o Stringify(kvs[1].value)
            \o (IF Len(kvs) = 1 THEN <<>> ELSE <<",">> \o StringifyMembers(Tail(kvs)))

\* JSON.parse: a recursive-descent parser.  A parse result is
\* [ok, val, next]: next is the index of the first character not consumed.
ParseFail == [ok |-> FALSE, val |-> JNull, next |-> 0]
ParseOk(val, next) == [ok |-> TRUE, val |-> val, next |-> next]

StartsWith(t, i, word) ==
    /\ i + Len(word) - 1 <= Len(t)
    /\ \A j \in 1..Len(word) : t[i + j - 1] = word[j]

RECURSIVE DigitRunEnd(_, _)
DigitRunEnd(t, i) == IF i <= Len(t) /\ IsDigit(t[i]) THEN DigitRunEnd(t, i + 1) ELSE i

RECURSIVE DigitsValue(_, _, _)
DigitsValue(t, i, j) == IF i >= j THEN 0 ELSE DigitsValue(t, i, j - 1) * 10 + DigitValue(t[j - 1])

RECURSIVE StringEnd(_, _)
StringEnd(t, i) == IF i > Len(t) THEN 0 ELSE IF t[i] = "\"" THEN i ELSE StringEnd(t, i + 1)

\* A member of a JS object: a repeated key keeps its first place and takes the last value.
RECURSIVE PutMember(_, _, _)
PutMember(kvs, k, v) ==
    IF kvs = <<>> THEN <<Member(k, v)>>
    ELSE IF kvs[1].key = k THEN <<Member(k, v)>> \o Tail(kvs)
    ELSE <<kvs[1]>> \o PutMember(Tail(kvs), k, v)

RECURSIVE ParseValue(_, _)
RECURSIVE ParseItems(_, _, _)
RECURSIVE ParseMembers(_, _, _)
ParseValue(t, i) ==
    IF i > Len(t) THEN ParseFail
    ELSE IF StartsWith(t, i, <<"n", "u", "l", "l">>) THEN ParseOk(JNull, i + 4)
    ELSE IF StartsWith(t, i, <<"t", "r", "u", "e">>) THEN ParseOk(JBool(TRUE), i + 4)
    ELSE IF StartsWith(t, i, <<"f", "a", "l", "s", "e">>) THEN ParseOk(JBool(FALSE), i + 5)
    ELSE IF IsDigit(t[i]) THEN
        LET j == IF t[i] = "0" THEN i + 1 ELSE DigitRunEnd(t, i)
        IN  ParseOk(JNum(DigitsValue(t, i, j)), j)
    ELSE IF t[i] = "\"" THEN
        LET j == StringEnd(t, i + 1)
        IN  IF j = 0 THEN ParseFail ELSE ParseOk(JStr(SubSeq(t, i + 1, j - 1)), j + 1)
    ELSE IF t[i] = "[" THEN
        IF i + 1 <= Len(t) /\ t[i + 1] = "]" THEN ParseOk(JArr(<<>>), i + 2)
        ELSE ParseItems(t, i + 1, <<>>)
    ELSE IF t[i] = "{" THEN
        IF i + 1 <= Len(t) /\ t[i + 1] = "}" THEN ParseOk(JObj(<<>>), i + 2)
        ELSE ParseMembers(t, i + 1, <<>>)
    ELSE ParseFail
ParseItems(t, i, acc) ==
    LET r == ParseValue(t, i)
    IN  IF ~r.ok \/ r.next > Len(t) THEN ParseFail
        ELSE IF t[r.next] = "]" THEN ParseOk(JArr(Append(acc, r.val)), r.next + 1)
        ELSE IF t[r.next] = "," THEN ParseItems(t, r.next + 1, Append(acc, r.val))
        ELSE ParseFail
ParseMembers(t, i, acc) ==
    IF i > Len(t) \/ t[i] # "\"" THEN ParseFail
    ELSE LET j == StringEnd(t, i + 1)
         IN  IF j = 0 \/ j + 1 > Len(t) \/ t[j + 1] # ":" THEN ParseFail
             ELSE LET r == ParseValue(t, j + 2)
                      members == PutMember(acc, SubSeq(t, i + 1, j - 1), r.val)
                  IN  IF ~r.ok \/ r.next > Len(t) THEN ParseFail
                      ELSE IF t[r.next] = "}" THEN ParseOk(JObj(members), r.next + 1)
                      ELSE IF t[r.next] = "," THEN ParseMembers(t, r.next + 1, members)
                      ELSE ParseFail

\* JSON.parse(text): the document, or a SyntaxError (None).
JsonParse(t) ==
    LET r == ParseValue(t, 1)
    IN  IF r.ok /\ r.next = Len(t) + 1 THEN Some(r.val) ELSE None


\* ---- UTF-8 ----------------------------------------------------------------
\* The characters of the model and their UTF-8 encodings.  "eacute" stands for
\* the one character U+00E9, which takes two bytes.
CharBytes ==
    << <<"\"", <<34>> >>, <<",", <<44>> >>, <<"0", <<48>> >>, <<"1", <<49>> >>, <<"2", <<50>> >>,
       <<"3", <<51>> >>, <<"4", <<52>> >>, <<"5", <<53>> >>, <<"6", <<54>> >>, <<"7", <<55>> >>,
       <<"8", <<56>> >>, <<"9", <<57>> >>, <<":", <<58>> >>, <<"[", <<91>> >>, <<"]", <<93>> >>,
       <<"a", <<97>> >>, <<"e", <<101>> >>, <<"f", <<102>> >>, <<"l", <<108>> >>, <<"n", <<110>> >>,
       <<"r", <<114>> >>, <<"s", <<115>> >>, <<"t", <<116>> >>, <<"u", <<117>> >>, <<"{", <<123>> >>,
       <<"}", <<125>> >>, <<"eacute", <<195, 169>> >> >>

ReplacementChar == "U+FFFD"

BytesOfChar(c) == (CHOOSE i \in 1..Len(CharBytes) : CharBytes[i][1] = c)

\* Buffer.from(text, 'utf8')
RECURSIVE Utf8Encode(_)
Utf8Encode(text) ==
    IF text = <<>> THEN <<>> ELSE CharBytes[BytesOfChar(text[1])][2] \o Utf8Encode(Tail(text))

\* buffer.toString('utf8'): never fails; a byte sequence that encodes no
\* character decodes to the replacement character.
RECURSIVE Utf8DecodeFrom(_, _)
Utf8DecodeFrom(b, i) ==
    IF i > Len(b) THEN <<>>
    ELSE LET hits == {k \in 1..Len(CharBytes) :
                         /\ i + Len(CharBytes[k][2]) - 1 <= Len(b)
                         /\ SubSeq(b, i, i + Len(CharBytes[k][2]) - 1) = CharBytes[k][2]}
         IN  IF hits = {} THEN <<ReplacementChar>> \o Utf8DecodeFrom(b, i + 1)
             ELSE LET k == CHOOSE h \in hits : TRUE
                  IN  <<CharBytes[k][1]>> \o Utf8DecodeFrom(b, i + Len(CharBytes[k][2]))
Utf8Decode(b) == Utf8DecodeFrom(b, 1)

\* ---- gzip -----------------------------------------------------------------
\* A gzip member: the magic bytes 0x1f 0x8b, the method byte 8, the deflated
\* body, and a trailer holding a checksum and the size of the original, both
\* modulo 256.  The deflated body is modelled as a run-length coding (count,
\* byte), the checksum as the sum of the bytes.
GzipMagic == <<31, 139, 8>>

RECURSIVE RunLength(_, _)
RunLength(b, i) == IF i < Len(b) /\ b[i + 1] = b[1] /\ i < 255 THEN RunLength(b, i + 1) ELSE i

RECURSIVE Deflate(_)
Deflate(b) ==
    IF b = <<>> THEN <<>>
    ELSE LET n == RunLength(b, 1)
         IN  <<n, b[1]>> \o Deflate(SubSeq(b, n + 1, Len(b)))

RECURSIVE Repeat(_, _)
Repeat(x, n) == IF n = 0 THEN <<>> ELSE <<x>> \o Repeat(x, n - 1)

\* None when the body is not a deflated stream.
RECURSIVE Inflate(_)
Inflate(z) ==
    IF z = <<>> THEN Some(<<>>)
    ELSE IF Len(z) < 2 \/ z[1] = 0 THEN None
    ELSE LET rest == Inflate(SubSeq(z, 3, Len(z)))
         IN  IF IsSome(rest) THEN Some(Repeat(z[2], z[1]) \o Get(rest)) ELSE None

RECURSIVE ByteSum(_)
ByteSum(b) == IF b = <<>> THEN 0 ELSE (b[1] + ByteSum(Tail(b))) % 256

Gzip(b) == GzipMagic \o Deflate(b) \o <<ByteSum(b), Len(b) % 256>>

\* zlib.gunzip: the original bytes, or None when the buffer is not a gzip
\* member (too short, wrong header, corrupt body, wrong checksum or size).
Gunzip(z) ==
    IF Len(z) < Len(GzipMagic) + 2 \/ SubSeq(z, 1, Len(GzipMagic)) # GzipMagic THEN None
    ELSE LET body == Inflate(SubSeq(z, Len(GzipMagic) + 1, Len(z) - 2))
         IN  IF IsSome(body) /\ ByteSum(Get(body)) = z[Len(z) - 1] /\ Len(Get(body)) % 256 = z[Len(z)]
             THEN body ELSE None

\* ---- base64 ---------------------------------------------------------------
Base64Alphabet ==
    <<"A", "B", "C", "D", "E", "F", "G", "H", "I", "J", "K", "L", "M", "N", "O", "P",
      "Q", "R", "S", "T", "U", "V", "W", "X", "Y", "Z", "a", "b", "c", "d", "e", "f",
      "g", "h", "i", "j", "k", "l", "m", "n", "o", "p", "q", "r", "s", "t", "u", "v",
      "w", "x", "y", "z", "0", "1", "2", "3", "4", "5", "6", "7", "8", "9", "+", "/">>

Sextet(c) == (CHOOSE i \in 1..64 : Base64Alphabet[i] = c) - 1
IsBase64Char(c) == \E i \in 1..64 : Base64Alphabet[i] = c

\* buffer.toString('base64'): three bytes give four characters; the last group
\* is padded with "=".
RECURSIVE Base64Encode(_)
Base64Encode(b) ==
    IF b = <<>> THEN <<>>
    ELSE IF Len(b) = 1 THEN
        <<Base64Alphabet[(b[1] \div 4) + 1], Base64Alphabet[((b[1] % 4) * 16) + 1], "=", "=">>
    ELSE IF Len(b) = 2 THEN
        <<Base64Alphabet[(b[1] \div 4) + 1],
          Base64Alphabet[((b[1] % 4) * 16 + b[2] \div 16) + 1],
          Base64Alphabet[((b[2] % 16) * 4) + 1], "=">>
    ELSE
        <<Base64Alphabet[(b[1] \div 4) + 1],
          Base64Alphabet[((b[1] % 4) * 16 + b[2] \div 16) + 1],
          Base64Alphabet[((b[2] % 16) * 4 + b[3] \div 64) + 1],
          Base64Alphabet[(b[3] % 64) + 1]>> \o Base64Encode(SubSeq(b, 4, Len(b)))

\* The sextets of a base64 string: decoding ends at the first "=", and a
\* character outside the alphabet is skipped.
RECURSIVE Sextets(_)
Sextets(s) ==
    IF s = <<>> \/ s[1] = "=" THEN <<>>
    ELSE IF IsBase64Char(s[1]) THEN <<Sextet(s[1])>> \o Sextets(Tail(s))
    ELSE Sextets(Tail(s))

RECURSIVE BytesOfSextets(_)
BytesOfSextets(q) ==
    IF Len(q) < 2 THEN <<>>
    ELSE IF Len(q) = 2 THEN <<q[1] * 4 + q[2] \div 16>>
    ELSE IF Len(q) = 3 THEN <<q[1] * 4 + q[2] \div 16, (q[2] % 16) * 16 + q[3] \div 4>>
    ELSE <<q[1] * 4 + q[2] \div 16, (q[2] % 16) * 16 + q[3] \div 4, (q[3] % 4) * 64 + q[4]>>
            \o BytesOfSextets(SubSeq(q, 5, Len(q)))

\* Buffer.from(data, 'base64'): never fails.
Base64Decode(s) == BytesOfSextets(Sextets(s))

\* ---- handler --------------------------------------------------------------
\* One invocation: where it is (pc), event.awslogs.data, the locals of the
\* handler, what it wrote to the console, and how it ended (returned or
\* thrown).  gunzipCalls and parseCalls count the calls made.
StartInvocation(data) ==
    [pc          |-> "entry",
     data        |-> data,
     payload     |-> <<>>,
     result      |-> None,
     logData     |-> None,
     caught      |-> None,
     returned    |-> None,
     thrown      |-> None,
     console     |-> <<>>,
     gunzipCalls |-> 0,
     parseCalls  |-> 0]

ConsoleLine(stream, tag) == [stream |-> stream, tag |-> tag]

\* console.log({event}), console.log({context}), payload = Buffer.from(data, 'base64')
handlerEntry(c) ==
    [c EXCEPT !.console = c.console \o <<ConsoleLine("log", "event"), ConsoleLine("log", "context")>>,
              !.payload = Base64Decode(c.data),
              !.pc = "gunzip"]

\* try { result = await gunzipAsync(payload)
handlerGunzip(c) ==
    LET r == Gunzip(c.payload)
    IN  IF IsSome(r)
        THEN [c EXCEPT !.result = r, !.gunzipCalls = @ + 1, !.pc = "parse"]
        ELSE [c EXCEPT !.caught = Some([name |-> "Error", from |-> "gunzip"]),
                       !.gunzipCalls = @ + 1, !.pc = "catch"]


\* A variant of the parse step that decodes the buffer a byte at a time
\* (result.toString('latin1')).
RECURSIVE Latin1Decode(_)
Latin1Decode(b) ==
    IF b = <<>> THEN <<>>
    ELSE LET hits == {k \in 1..Len(CharBytes) : CharBytes[k][2] = <<b[1]>>}
         IN  <<IF hits = {} THEN ReplacementChar ELSE CharBytes[CHOOSE k \in hits : TRUE][1]>>
                \o Latin1Decode(Tail(b))

handlerParse_Latin1(c) ==
    LET r == JsonParse(Latin1Decode(Get(c.result)))
    IN  IF IsSome(r)
        THEN [c EXCEPT !.logData = r, !.parseCalls = @ + 1, !.pc = "return"]
        ELSE [c EXCEPT !.caught = Some([name |-> "SyntaxError", from |-> "JSON.parse"]),
                       !.parseCalls = @ + 1, !.pc = "catch"]

\* logData = JSON.parse(result.toString('utf8'))
handlerParse(c) ==
    LET r == JsonParse(Utf8Decode(Get(c.result)))
    IN  IF IsSome(r)
        THEN [c EXCEPT !.logData = r, !.parseCalls = @ + 1, !.pc = "return"]
        ELSE [c EXCEPT !.caught = Some([name |-> "SyntaxError", from |-> "JSON.parse"]),
                       !.parseCalls = @ + 1, !.pc = "catch"]

\* console.log({DecodedLog: logData}); return logData
handlerReturn(c) ==
    [c EXCEPT !.console = Append(c.console, ConsoleLine("log", "DecodedLog")),
              !.returned = c.logData,
              !.pc = "returned"]


\* A variant of the catch block that logs the error and does not throw it.
handlerCatch_Swallow(c) ==
    [c EXCEPT !.console = Append(c.console, ConsoleLine("error", "error")),
              !.pc = "returned"]

\* } catch (error) { console.error(null, error); throw error }
handlerCatch(c) ==
    [c EXCEPT !.console = Append(c.console, ConsoleLine("error", "error")),
              !.thrown = c.caught,
              !.pc = "thrown"]

\* The handler run to its end.
handler(data) ==
    LET c1 == handlerGunzip(handlerEntry(StartInvocation(data)))
        c2 == IF c1.pc = "parse" THEN handlerParse(c1) ELSE c1
    IN  IF c2.pc = "return" THEN handlerReturn(c2) ELSE handlerCatch(c2)

------------------------------------------------------------------------------
(***************************************************************************)
(* One execution of the state machine, started at Init.                    *)
(***************************************************************************)
\* visited records each state the execution enters (Succeed and Failed included).
StateInit ==
    /\ exec.pc = "Init"
    /\ exec' = init(exec)
    /\ visited' = Append(visited, exec'.pc)
    /\ UNCHANGED <<published, handlerVars, stackVars, runsVars, topicVars>>

StateGetLogEvents ==
    /\ exec.pc = "GetLogEvents"
    /\ exec' = getLogEvents(exec)
    /\ visited' = Append(visited, exec'.pc)
    /\ UNCHANGED <<published, handlerVars, stackVars, runsVars, topicVars>>

StateCheckUntreatedLogEventDetailExist ==
    /\ exec.pc = "CheckUntreatedLogEventDetailExist"
    /\ exec' = checkUntreatedLogEventDetailExist(exec)
    /\ visited' = Append(visited, exec'.pc)
    /\ UNCHANGED <<published, handlerVars, stackVars, runsVars, topicVars>>

StateGetLogEventDetail ==
    /\ exec.pc = "GetLogEventDetail"
    /\ exec' = getLogEventDetail(exec)
    /\ visited' = Append(visited, exec'.pc)
    /\ UNCHANGED <<published, handlerVars, stackVars, runsVars, topicVars>>

StateGetLogEventMessage ==
    /\ exec.pc = "GetLogEventMessage"
    /\ exec' = getLogEventMessage(exec)
    /\ visited' = Append(visited, exec'.pc)
    /\ UNCHANGED <<published, handlerVars, stackVars, runsVars, topicVars>>

StateGetLogEventMessageStackTrace ==
    /\ exec.pc = "GetLogEventMessageStackTrace"
    /\ exec' = getLogEventMessageStackTrace(exec)
    /\ visited' = Append(visited, exec'.pc)
    /\ UNCHANGED <<published, handlerVars, stackVars, runsVars, topicVars>>

StateCheckUntreatedMessageStackTraceLinesExist ==
    /\ exec.pc = "CheckUntreatedMessageStackTraceLinesExist"
    /\ exec' = checkUntreatedMessageStackTraceLinesExist(exec)
    /\ visited' = Append(visited, exec'.pc)
    /\ UNCHANGED <<published, handlerVars, stackVars, runsVars, topicVars>>

StateGetLogEventMessageStackTraceLine ==
    /\ exec.pc = "GetLogEventMessageStackTraceLine"
    /\ exec' = getLogEventMessageStackTraceLine(exec)
    /\ visited' = Append(visited, exec'.pc)
    /\ UNCHANGED <<published, handlerVars, stackVars, runsVars, topicVars>>

StateConcatenateStackTraceLine ==
    /\ exec.pc = "ConcatenateStackTraceLine"
    /\ exec' = concatenateStackTraceLine(exec)
    /\ visited' = Append(visited, exec'.pc)
    /\ UNCHANGED <<published, handlerVars, stackVars, runsVars, topicVars>>

StateUntreatedMessageTraceLines ==
    /\ exec.pc = "UntreatedMessageTraceLines"
    /\ exec' = getUntreatedMessageTraceLines(exec)
    /\ visited' = Append(visited, exec'.pc)
    /\ UNCHANGED <<published, handlerVars, stackVars, runsVars, topicVars>>

StatePrepareMessage ==
    /\ exec.pc = "PrepareMessage"
    /\ exec' = prepareMessage(exec)
    /\ visited' = Append(visited, exec'.pc)
    /\ UNCHANGED <<published, handlerVars, stackVars, runsVars, topicVars>>

StateGetUntreatedMessages ==
    /\ exec.pc = "GetUntreatedMessages"
    /\ exec' = getUntreatedMessages(exec)
    /\ visited' = Append(visited, exec'.pc)
    /\ UNCHANGED <<published, handlerVars, stackVars, runsVars, topicVars>>

StateSendNotification ==
    /\ exec.pc = "SendNotification"
    /\ exec' = sendNotification(exec)
    /\ published' = published \o PublishCall(exec)
    /\ visited' = Append(visited, exec'.pc)
    /\ UNCHANGED <<handlerVars, stackVars, runsVars, topicVars>>

WorkflowInit ==
    /\ \E batch \in Batches : exec = StartExecution(RoutedEvent(batch))
    /\ published = <<>>
    /\ visited = <<"Init">>

\* No execution, for the specifications that run none.
WorkflowIdle ==
    /\ exec = [pc |-> "none"]
    /\ published = <<>>
    /\ visited = <<>>

WorkflowNext ==
    \/ StateInit
    \/ StateGetLogEvents
    \/ StateCheckUntreatedLogEventDetailExist
    \/ StateGetLogEventDetail
    \/ StateGetLogEventMessage
    \/ StateGetLogEventMessageStackTrace
    \/ StateCheckUntreatedMessageStackTraceLinesExist
    \/ StateGetLogEventMessageStackTraceLine
    \/ StateConcatenateStackTraceLine
    \/ StateUntreatedMessageTraceLines
    \/ StatePrepareMessage
    \/ StateSendNotification
    \/ StateGetUntreatedMessages

------------------------------------------------------------------------------
(***************************************************************************)
(* One invocation of the notification function, a statement at a time.     *)
(***************************************************************************)
\* What the invoker does to a document: awslogs.data = base64(gzip(utf8(JSON(d)))).
EncodeText(t) == Base64Encode(Gzip(Utf8Encode(t)))
EncodeDocument(d) == EncodeText(Stringify(d))

\* The documents of the inputs.
Atoms ==
    {JNull, JBool(TRUE), JBool(FALSE), JNum(0), JNum(10), JStr(<<>>), JStr(<<"eacute", "a">>)}
Arrays == {JArr(vs) : vs \in SeqsUpTo(Atoms, MaxItems)}
Objects ==
    {JObj(<<>>)} \cup {JObj(<<Member(<<"a">>, v)>>) : v \in Atoms}
        \cup {JObj(<<Member(<<"a">>, v), Member(<<"e">>, JNull)>>) : v \in Atoms}
JsonDocs ==
    Atoms \cup Arrays \cup Objects
        \cup {JArr(<<d>>) : d \in Arrays \cup Objects}
        \cup {JObj(<<Member(<<"l">>, d)>>) : d \in Arrays}

\* Texts that are not built from a document; most are not JSON.
TextChars == {"[", "]", "{", "1", ",", "\""}
Texts == SeqsUpTo(TextChars, MaxTextLen)

\* Buffers that are not gzip members, made from one that is.
Corruptions(z) ==
    {SubSeq(z, 1, Len(z) - 1),                               \* the last byte lost
     [z EXCEPT ![1] = 0],                                    \* the magic byte overwritten
     [z EXCEPT ![Len(z) - 1] = (z[Len(z) - 1] + 1) % 256]}   \* the checksum off by one

\* <<the document encoded (if any), event.awslogs.data>>
HandlerInputs ==
    {<<Some(d), EncodeDocument(d)>> : d \in JsonDocs}
        \cup {<<None, EncodeText(t)>> : t \in Texts}
        \cup {<<None, Base64Encode(z)>> : z \in UNION {Corruptions(Gzip(Utf8Encode(Stringify(d)))) : d \in Atoms \cup Objects}}
        \cup {<<None, <<>>>>, <<None, <<"!", "!">>>>}

HandlerInit ==
    \E in \in HandlerInputs :
        /\ sent = in[1]
        /\ call = StartInvocation(in[2])

HandlerIdle ==
    /\ call = [pc |-> "none"]
    /\ sent = None

HandlerEntry ==
    /\ call.pc = "entry"
    /\ call' = handlerEntry(call)
    /\ UNCHANGED <<sent, wfVars, stackVars, runsVars, topicVars>>

HandlerGunzip ==
    /\ call.pc = "gunzip"
    /\ call' = handlerGunzip(call)
    /\ UNCHANGED <<sent, wfVars, stackVars, runsVars, topicVars>>

HandlerParse ==
    /\ call.pc = "parse"
    /\ call' = handlerParse(call)
    /\ UNCHANGED <<sent, wfVars, stackVars, runsVars, topicVars>>

HandlerReturn ==
    /\ call.pc = "return"
    /\ call' = handlerReturn(call)
    /\ UNCHANGED <<sent, wfVars, stackVars, runsVars, topicVars>>

HandlerCatch ==
    /\ call.pc = "catch"
    /\ call' = handlerCatch(call)
    /\ UNCHANGED <<sent, wfVars, stackVars, runsVars, topicVars>>

HandlerNext ==
    \/ HandlerEntry
    \/ HandlerGunzip
    \/ HandlerParse
    \/ HandlerReturn
    \/ HandlerCatch

------------------------------------------------------------------------------
(***************************************************************************)
(* The two stacks.  Both classes are named                                 *)
(* LambdaFunctionLogNotificationStack: the one of src/src/index.ts defines *)
(* the state machine, the one of src/unnamed/part_001 the subscription     *)
(* filter.                                                                 *)
(***************************************************************************)
MaxOps == 2          \* batches written plus direct invocations, in one behaviour
MaxBatch == 2        \* longest batch of log records written at once

NotificationFunctionArn == "arn:function"


\* A variant of the filter pattern that names one level: '{ $.level = "ERROR" }'.
FilterPattern_ErrorOnly == [field |-> "$.level", anyOf |-> {"ERROR"}]

\* logs.FilterPattern.literal('{ $.level = "ERROR" || $.level = "WARN" }'):
\* the JSON field of the record and the values it may equal.
FilterPattern == [field |-> "$.level", anyOf |-> {"ERROR", "WARN"}]

\* new logs.SubscriptionFilter(this, 'SubscriptionFilter', {logGroup, destination, filterPattern})
SubscriptionFilter(props) ==
    [logGroupName  |-> props.logGroupName,
     destination   |-> "NotificationFunction",
     filterPattern |-> FilterPattern]

\* The event pattern both rules share but for the detail type.
EventPattern(detailType) ==
    [source      |-> {"lambda"},
     detailType  |-> {detailType},
     functionArn |-> <<NotificationFunctionArn, "*">>]     \* wildcard: `${functionArn}:*`

FailureDetailType == "Lambda Function Invocation Result - Failure"
SuccessDetailType == "Lambda Function Invocation Result - Success"


\* A variant of the failure rule whose target is the state machine.
FailureRule_TargetsStateMachine ==
    [id |-> "LambdaFunctionLogSubscriptionFuncFailureRule",
     eventPattern |-> EventPattern(FailureDetailType),
     targets |-> {"StateMachine"}]

\* LambdaFunctionLogSubscriptionFuncFailureRule: no targets, in both stacks.
FailureRule ==
    [id |-> "LambdaFunctionLogSubscriptionFuncFailureRule",
     eventPattern |-> EventPattern(FailureDetailType),
     targets |-> {}]

\* LambdaFunctionLogSubscriptionFuncSuccessRule of src/src/index.ts: its
\* target is the state machine.
SuccessRuleWithStateMachine ==
    [id |-> "LambdaFunctionLogSubscriptionFuncSuccessRule",
     eventPattern |-> EventPattern(SuccessDetailType),
     targets |-> {"StateMachine"}]

\* LambdaFunctionLogSubscriptionFuncSuccessRule of src/unnamed/part_001: no targets.
SuccessRuleWithoutTarget ==
    [id |-> "LambdaFunctionLogSubscriptionFuncSuccessRule",
     eventPattern |-> EventPattern(SuccessDetailType),
     targets |-> {}]

\* A variant of the loop that stops after the first address.
EmailSubscriptions_FirstOnly(props) ==
    IF IsSome(props.emails) /\ Get(props.emails) # <<>> THEN <<Get(props.emails)[1]>> ELSE <<>>

\* for (const email of props.notifications.emails ?? []) topic.addSubscription(...)
EmailSubscriptions(props) == IF IsSome(props.emails) THEN Get(props.emails) ELSE <<>>

\* The constructor of src/src/index.ts.
WorkflowStack(props) ==
    [variant             |-> "workflow",
     props               |-> props,
     emailSubscriptions  |-> EmailSubscriptions(props),
     onSuccess           |-> "EventBridge",
     onFailure           |-> "EventBridge",
     subscriptionFilters |-> {},
     stateMachine        |-> TRUE,
     rules               |-> {FailureRule, SuccessRuleWithStateMachine}]

\* The constructor of src/unnamed/part_001.
FilterStack(props) ==
    [variant             |-> "filter",
     props               |-> props,
     emailSubscriptions  |-> EmailSubscriptions(props),
     onSuccess           |-> "EventBridge",
     onFailure           |-> "EventBridge",
     subscriptionFilters |-> {SubscriptionFilter(props)},
     stateMachine        |-> FALSE,
     rules               |-> {FailureRule, SuccessRuleWithoutTarget}]

\* The props of the repository's test, with and without emails.
StackProps ==
    {[logGroupName |-> "example-function-log", emails |-> e] : e \in {None, Some(<<"foo@example.com">>)}}

\* A log record is modelled by its JSON field level (absent when the record
\* has none, or is not JSON).
Levels == {Some("ERROR"), Some("WARN"), Some("INFO"), None}
LogGroupNames == {"example-function-log", "other-log-group"}
RecordBatches == SeqsUpTo(Levels, MaxBatch) \ {<<>>}

\* CloudWatch Logs' evaluation of a filter pattern on a record.
PatternMatches(pattern, level) == IsSome(level) /\ Get(level) \in pattern.anyOf

RECURSIVE Forwarded(_, _)
Forwarded(pattern, batch) ==
    IF batch = <<>> THEN <<>>
    ELSE (IF PatternMatches(pattern, batch[1]) THEN <<batch[1]>> ELSE <<>>)
            \o Forwarded(pattern, Tail(batch))

\* What CloudWatch Logs hands the function for n forwarded records: the
\* encoded document, here an object holding the array of the records' numbers.
DeliveredData(n) == EncodeDocument(JObj(<<Member(<<"l">>, JArr([i \in 1..n |-> JNum(i)]))>>))

\* The filters subscribed to log group g.
FiltersOf(g) == {f \in stack.subscriptionFilters : f.logGroupName = g}

\* A batch of records is written to log group g.  A filter subscribed to g
\* hands the matching records, if any, to its destination in one invocation.
PutLogEvents(g, batch) ==
    /\ ops < MaxOps
    /\ ops' = ops + 1
    /\ LET fwd == IF FiltersOf(g) = {} THEN <<>>
                  ELSE Forwarded((CHOOSE f \in FiltersOf(g) : TRUE).filterPattern, batch)
       IN  /\ pending' = IF fwd = <<>> THEN pending ELSE Append(pending, DeliveredData(Len(fwd)))
           /\ lastPut' = Some([logGroup |-> g, batch |-> batch, forwarded |-> fwd,
                               invocations |-> IF fwd = <<>> THEN 0 ELSE 1])
    /\ UNCHANGED <<stack, bus, lastRouted, executions, wfVars, handlerVars, runsVars, topicVars>>

\* The function is invoked by something other than a subscription filter.
DirectData == {EncodeDocument(JArr(<<>>)), <<"!", "!">>}

InvokeDirectly(data) ==
    /\ ops < MaxOps
    /\ ops' = ops + 1
    /\ pending' = Append(pending, data)
    /\ UNCHANGED <<stack, bus, lastPut, lastRouted, executions, wfVars, handlerVars, runsVars, topicVars>>

\* The event a destination of the function puts on the bus.
ResultEvent(c) ==
    [source      |-> "lambda",
     detailType  |-> IF c.pc = "returned" THEN SuccessDetailType ELSE FailureDetailType,
     functionArn |-> <<NotificationFunctionArn, "$LATEST">>]

Destination(c) == IF c.pc = "returned" THEN stack.onSuccess ELSE stack.onFailure

\* A pending invocation runs; onSuccess / onFailure: EventBridgeDestination.
RunInvocation ==
    /\ pending # <<>>
    /\ pending' = Tail(pending)
    /\ LET c == handler(pending[1])
       IN  bus' = IF Destination(c) = "EventBridge" THEN Append(bus, ResultEvent(c)) ELSE bus
    /\ UNCHANGED <<stack, lastPut, lastRouted, executions, ops, wfVars, handlerVars, runsVars, topicVars>>

\* EventBridge's match of an event against a rule's pattern.
MatchesRule(rule, e) ==
    /\ e.source \in rule.eventPattern.source
    /\ e.detailType \in rule.eventPattern.detailType
    /\ e.functionArn[1] = rule.eventPattern.functionArn[1]

\* The rules of the stack that match event e, and the executions they start.
MatchingRules(e) == {r \in stack.rules : MatchesRule(r, e)}
Started(e) == Cardinality({r \in MatchingRules(e) : "StateMachine" \in r.targets})

\* An event of the bus is matched against the rules; a matching rule triggers
\* its targets.
RouteEvent ==
    /\ bus # <<>>
    /\ bus' = Tail(bus)
    /\ executions' = executions + Started(bus[1])
    /\ lastRouted' = Some([detailType |-> bus[1].detailType,
                           rules      |-> {r.id : r \in MatchingRules(bus[1])},
                           started    |-> Started(bus[1])])
    /\ UNCHANGED <<stack, pending, lastPut, ops, wfVars, handlerVars, runsVars, topicVars>>

StackInit ==
    /\ \E props \in StackProps : stack \in {WorkflowStack(props), FilterStack(props)}
    /\ pending = <<>>
    /\ bus = <<>>
    /\ lastPut = None
    /\ lastRouted = None
    /\ executions = 0
    /\ ops = 0

StackIdle ==
    /\ stack = [variant |-> "none"]
    /\ pending = <<>>
    /\ bus = <<>>
    /\ lastPut = None
    /\ lastRouted = None
    /\ executions = 0
    /\ ops = 0

StackNext ==
    \/ \E g \in LogGroupNames, batch \in RecordBatches : PutLogEvents(g, batch)
    \/ \E data \in DirectData : InvokeDirectly(data)
    \/ RunInvocation
    \/ RouteEvent

------------------------------------------------------------------------------
(***************************************************************************)
(* Several executions of the state machine.  Each execution started by the *)
(* StateMachine owns the state document it was started with; the only      *)
(* resource the executions have in common is the topic SendNotification    *)
(* publishes to.                                                           *)
(***************************************************************************)
ExecutionNames == {"execution-1", "execution-2"}

\* The transition of the state the document is at.
Transition(x) ==
    CASE x.pc = "Init" -> init(x)
      [] x.pc = "GetLogEvents" -> getLogEvents(x)
      [] x.pc = "CheckUntreatedLogEventDetailExist" -> checkUntreatedLogEventDetailExist(x)
      [] x.pc = "GetLogEventDetail" -> getLogEventDetail(x)
      [] x.pc = "GetLogEventMessage" -> getLogEventMessage(x)
      [] x.pc = "GetLogEventMessageStackTrace" -> getLogEventMessageStackTrace(x)
      [] x.pc = "CheckUntreatedMessageStackTraceLinesExist" -> checkUntreatedMessageStackTraceLinesExist(x)
      [] x.pc = "GetLogEventMessageStackTraceLine" -> getLogEventMessageStackTraceLine(x)
      [] x.pc = "ConcatenateStackTraceLine" -> concatenateStackTraceLine(x)
      [] x.pc = "UntreatedMessageTraceLines" -> getUntreatedMessageTraceLines(x)
      [] x.pc = "PrepareMessage" -> prepareMessage(x)
      [] x.pc = "SendNotification" -> sendNotification(x)
      [] x.pc = "GetUntreatedMessages" -> getUntreatedMessages(x)
      [] OTHER -> x

\* Batches of n entries, each with the stack trace ["frame1"], from one of
\* two log streams.
RunEvents ==
    {[RoutedEvent([k \in 1..n |-> LogEvent(k, "ok", <<"frame1">>)]) EXCEPT !.logStream = s] :
        n \in 0..MaxEvents, s \in {"stream-1", "stream-2"}}

\* The publish calls of an execution that runs from document x to its end.
RECURSIVE PublishesAlone(_)
PublishesAlone(x) ==
    IF x.pc \in {"Succeed", "Failed"} THEN <<>>
    ELSE (IF x.pc = "SendNotification" THEN PublishCall(x) ELSE <<>>)
            \o PublishesAlone(Transition(x))

\* A variant in which the executions work on one state document.
ScratchOf_Shared(documents, e) == documents["execution-1"]

\* The state document execution e works on: its own.
ScratchOf(documents, e) == documents[e]

\* Execution e makes the transition of a Pass or Choice state.
RunTransition(e) ==
    /\ runs[e].pc \notin {"Succeed", "Failed", "SendNotification"}
    /\ runs' = [runs EXCEPT ![e] = Transition(ScratchOf(runs, e))]
    /\ UNCHANGED <<calls, wfVars, handlerVars, stackVars, topicVars>>

\* Execution e is at SendNotification: the topic receives its publish call.
RunSendNotification(e) ==
    /\ runs[e].pc = "SendNotification"
    /\ runs' = [runs EXCEPT ![e] = Transition(ScratchOf(runs, e))]
    /\ calls' = calls \o [i \in 1..Len(PublishCall(ScratchOf(runs, e))) |->
                              [execution |-> e, call |-> PublishCall(ScratchOf(runs, e))[i]]]
    /\ UNCHANGED <<wfVars, handlerVars, stackVars, topicVars>>

\* One execution per routed event, all started.
RunsInit ==
    /\ runs \in [ExecutionNames -> {StartExecution(ev) : ev \in RunEvents}]
    /\ calls = <<>>

RunsIdle ==
    /\ runs = <<>>
    /\ calls = <<>>

RunsNext ==
    \/ \E e \in ExecutionNames : RunTransition(e)
    \/ \E e \in ExecutionNames : RunSendNotification(e)

------------------------------------------------------------------------------
(***************************************************************************)
(* The notification topic and its email subscriptions.                     *)
(***************************************************************************)
MaxEmails == 2       \* longest props.notifications.emails
MaxPublishes == 2    \* publish calls the topic receives in one behaviour

Addresses == {"foo@example.com", "bar@example.com"}

\* props with notifications.emails absent, empty, or a list of addresses (an
\* address may be listed twice).
TopicProps ==
    {[logGroupName |-> "example-function-log", emails |-> e] :
        e \in {None} \cup {Some(l) : l \in SeqsUpTo(Addresses, MaxEmails)}}

\* new sns.Topic(...), before the loop over the emails.
NewTopic(props) ==
    [pc            |-> IF EmailSubscriptions(props) = <<>> THEN "constructed" ELSE "subscribing",
     props         |-> props,
     next          |-> 1,
     subscriptions |-> {},
     outstanding   |-> {}]

\* new subscriptions.EmailSubscription(email)
EmailSubscription(email) == [protocol |-> "email", endpoint |-> email]

\* One iteration of the loop: topic.addSubscription(new EmailSubscription(email)).
\* The subscription's construct id is the address, and addSubscription throws
\* when the id is taken, which ends the constructor.
AddSubscription ==
    /\ topic.pc = "subscribing"
    /\ LET emails == EmailSubscriptions(topic.props)
           sub    == EmailSubscription(emails[topic.next])
       IN  topic' = IF sub \in topic.subscriptions
                    THEN [topic EXCEPT !.pc = "throw"]
                    ELSE [topic EXCEPT !.subscriptions = @ \cup {sub},
                                       !.next = @ + 1,
                                       !.pc = IF topic.next = Len(emails)
                                              THEN "constructed" ELSE "subscribing"]
    /\ UNCHANGED <<accepted, inbox, wfVars, handlerVars, stackVars, runsVars>>

\* The {subject, message} pairs SendNotification publishes for the first entry
\* of a batch, one per log stream.
SamplePublishes ==
    {PublishesAlone(StartExecution(ev))[1] : ev \in {e \in RunEvents : Len(e.logEvents) = 1}}

\* The topic accepts a publish call: one delivery per subscription is due.
TopicPublish(c) ==
    /\ topic.pc = "constructed"
    /\ Len(accepted) < MaxPublishes
    /\ accepted' = Append(accepted, c)
    /\ topic' = [topic EXCEPT !.outstanding =
                     @ \cup {[endpoint |-> sub.endpoint, publish |-> Len(accepted) + 1] :
                                sub \in topic.subscriptions}]
    /\ UNCHANGED <<inbox, wfVars, handlerVars, stackVars, runsVars>>

\* The topic hands one due delivery to its address; the deliveries that are
\* due are made in any order.
TopicDeliver ==
    \E d \in topic.outstanding :
        /\ topic' = [topic EXCEPT !.outstanding = @ \ {d}]
        /\ inbox' = inbox (+) SetToBag({[endpoint |-> d.endpoint, publish |-> d.publish,
                                          pair |-> accepted[d.publish]]})
        /\ UNCHANGED <<accepted, wfVars, handlerVars, stackVars, runsVars>>

TopicInit ==
    /\ \E props \in TopicProps : topic = NewTopic(props)
    /\ accepted = <<>>
    /\ inbox = EmptyBag

TopicIdle ==
    /\ topic = [pc |-> "none"]
    /\ accepted = <<>>
    /\ inbox = EmptyBag

TopicNext ==
    \/ AddSubscription
    \/ \E c \in SamplePublishes : TopicPublish(c)
    \/ TopicDeliver

------------------------------------------------------------------------------
(***************************************************************************)
(* The specifications.                                                     *)
(***************************************************************************)
\* One execution of the state machine on a routed event.
Init == WorkflowInit /\ HandlerIdle /\ StackIdle /\ RunsIdle /\ TopicIdle
Next == WorkflowNext
Spec == Init /\ [][Next]_vars

\* One invocation of the notification function.
InitHandler == HandlerInit /\ WorkflowIdle /\ StackIdle /\ RunsIdle /\ TopicIdle
NextHandler == HandlerNext
SpecHandler == InitHandler /\ [][NextHandler]_vars

\* A deployed stack: records are written, the function is invoked, its result
\* events are routed.
InitStack == StackInit /\ WorkflowIdle /\ HandlerIdle /\ RunsIdle /\ TopicIdle
NextStack == StackNext
SpecStack == InitStack /\ [][NextStack]_vars

\* Executions of the state machine running side by side.
InitRuns == RunsInit /\ WorkflowIdle /\ HandlerIdle /\ StackIdle /\ TopicIdle
SpecRuns == InitRuns /\ [][RunsNext]_vars

\* The topic: its construction, then publishes and deliveries.
InitTopic == TopicInit /\ WorkflowIdle /\ HandlerIdle /\ StackIdle /\ RunsIdle
SpecTopic == InitTopic /\ [][TopicNext]_vars

\* One execution that keeps making transitions while it can.
SpecLive == Spec /\ WF_vars(Next)

Ended == exec.pc \in {"Succeed", "Failed"}

------------------------------------------------------------------------------
(***************************************************************************)
(* Properties of one execution.                                            *)
(***************************************************************************)
LogEvents == exec.input.logEvents

\* An entry whose message is JSON text that holds a stackTrace.
Parseable(e) == IsSome(e.message) /\ IsSome(Get(e.message).message.stackTrace)
StackTraceOf(e) == Get(Get(e.message).message.stackTrace)

\* Every entry of the batch is parseable and has a non-empty stack trace.
AllEntriesWellFormed ==
    \A k \in 1..Len(LogEvents) : Parseable(LogEvents[k]) /\ Len(StackTraceOf(LogEvents[k])) >= 1

\* l1 + "\n" + l2 + "\n" + ... + ln + "\n"
RECURSIVE JoinLines(_)
JoinLines(L) == IF L = <<>> THEN "" ELSE L[1] \o "\n" \o JoinLines(Tail(L))

\* The publish call the specification describes for entry e of the input.
ExpectedPublish(e) ==
    LET p == Get(e.message)
    IN  [Subject |-> FormatSubject(exec.input.account, exec.input.region),
         Message |-> FormatMessage(exec.input.account, exec.input.region,
                                   exec.input.logGroup, exec.input.logStream,
                                   p.timestamp, p.requestId, p.message.errorType,
                                   p.message.errorMessage, JoinLines(StackTraceOf(e)))]

\* C1: an execution over N entries, each parseable and with a non-empty stack
\* trace, ends at Succeed having made exactly N publish calls.
C1_OnePublishPerEntry ==
    (Ended /\ AllEntriesWellFormed) =>
        (exec.pc = "Succeed" /\ Len(published) = Len(LogEvents))

\* C3: the entries are processed in array order: when the execution over a
\* well-formed batch has ended, for every k the k-th publish exists and carries
\* the timestamp, request id, error type, error message and flattened stack
\* trace of the k-th entry.
C3_KthPublishCarriesKthEntry ==
    (Ended /\ AllEntriesWellFormed) =>
        \A k \in 1..Len(LogEvents) :
            k <= Len(published) /\ published[k] = ExpectedPublish(LogEvents[k])

\* C4: when the execution is at PrepareMessage for an entry with stack trace
\* [l1, ..., ln], the accumulator equals l1 "\n" l2 "\n" ... ln "\n"; the
\* trace ["frame1","frame2","frame3"] gives "frame1\nframe2\nframe3\n".
C4_AccumulatorIsJoinedStackTrace ==
    exec.pc = "PrepareMessage" =>
        /\ HasParsed(exec)
        /\ IsSome(Get(Get(exec.Temp_Log).Parsed).message.stackTrace)
        /\ LET L == Get(Get(Get(exec.Temp_Log).Parsed).message.stackTrace)
           IN  /\ exec.Prepare_Concatenated_StackTrace = Some(JoinLines(L))
               /\ L = <<"frame1", "frame2", "frame3">> =>
                      exec.Prepare_Concatenated_StackTrace = Some("frame1\nframe2\nframe3\n")

C4_Witness ==
    /\ exec.pc = "PrepareMessage"
    /\ Get(Get(exec.Temp_Log).Parsed).message.stackTrace = Some(<<"frame1", "frame2", "frame3">>)
    /\ exec.Prepare_Concatenated_StackTrace = Some("frame1\nframe2\nframe3\n")

EmptyBatchPath == <<"Init", "GetLogEvents", "CheckUntreatedLogEventDetailExist", "Succeed">>

\* C5: on an empty logEvents array the execution goes Init, GetLogEvents,
\* CheckUntreatedLogEventDetailExist, Succeed: it visits no other state, makes
\* no publish call and does not fail.
C5_EmptyBatchGoesStraightToSucceed ==
    Len(LogEvents) = 0 =>
        /\ published = <<>>
        /\ Len(visited) <= Len(EmptyBatchPath)
        /\ visited = SubSeq(EmptyBatchPath, 1, Len(visited))
        /\ exec.pc = visited[Len(visited)]

C5_Witness ==
    /\ Len(LogEvents) = 0
    /\ exec.pc = "Succeed"
    /\ visited = EmptyBatchPath
    /\ published = <<>>

\* The first entry of the batch that is not parseable is entry k.
FirstBadEntry(k) ==
    /\ k \in 1..Len(LogEvents)
    /\ ~Parseable(LogEvents[k])
    /\ \A j \in 1..(k - 1) : Parseable(LogEvents[j])

\* C6: when the first unparseable entry is entry k, the execution ends failed
\* at that entry's parse transition, having published entries 1..k-1 and
\* nothing else.
C6_AbortsAtFirstBadEntry ==
    \A k \in 1..Len(LogEvents) :
        (Ended /\ FirstBadEntry(k)) =>
            /\ exec.pc = "Failed"
            /\ Get(exec.error).state \in {"GetLogEventMessage", "GetLogEventMessageStackTrace"}
            /\ Len(published) = k - 1
            /\ \A j \in 1..(k - 1) : published[j] = ExpectedPublish(LogEvents[j])

------------------------------------------------------------------------------
(***************************************************************************)
(* Properties of one invocation of the notification function.              *)
(***************************************************************************)
Finished == call.pc \in {"returned", "thrown"}

ErrorLines == SelectSeq(call.console, LAMBDA l : l.stream = "error")
DecodedLogLines == SelectSeq(call.console, LAMBDA l : l.tag = "DecodedLog")

\* C9: round trip: invoked with awslogs.data = base64(gzip(utf8(JSON(d)))),
\* the handler ends as a successful invocation whose result is d.
C9_RoundTrip ==
    (IsSome(sent) /\ Finished) => (call.pc = "returned" /\ call.returned = sent)

C9_Witness ==
    /\ call.pc = "returned"
    /\ sent = Some(JObj(<<Member(<<"l">>, JArr(<<JStr(<<"eacute", "a">>), JNum(10)>>))>>))
    /\ call.returned = sent

\* The step of the handler that fails on event.awslogs.data, if one does.
GunzipFails == ~IsSome(Gunzip(Base64Decode(call.data)))
ParseFails ==
    /\ ~GunzipFails
    /\ ~IsSome(JsonParse(Utf8Decode(Get(Gunzip(Base64Decode(call.data))))))

\* C10: when gunzip fails, or the decompressed bytes are not JSON, the
\* invocation ends failed: the error of the failing step is logged once and
\* thrown, nothing is returned, the DecodedLog line is not written, gunzip is
\* called once, and JSON.parse is not called after a failed gunzip.
C10_FailureIsLoggedOnceAndRethrown ==
    (Finished /\ (GunzipFails \/ ParseFails)) =>
        /\ call.pc = "thrown"
        /\ IsSome(call.thrown)
        /\ call.thrown = call.caught
        /\ Get(call.thrown).from = (IF GunzipFails THEN "gunzip" ELSE "JSON.parse")
        /\ call.returned = None
        /\ call.logData = None
        /\ Len(ErrorLines) = 1
        /\ call.console[Len(call.console)].stream = "error"
        /\ DecodedLogLines = <<>>
        /\ call.gunzipCalls = 1
        /\ call.parseCalls = (IF GunzipFails THEN 0 ELSE 1)

C10_Witness ==
    /\ call.pc = "thrown"
    /\ GunzipFails
    /\ call.thrown = Some([name |-> "Error", from |-> "gunzip"])
    /\ call.parseCalls = 0
    /\ call.console = <<ConsoleLine("log", "event"), ConsoleLine("log", "context"),
                        ConsoleLine("error", "error")>>

------------------------------------------------------------------------------
(***************************************************************************)
(* Properties of the stacks.                                               *)
(***************************************************************************)
IsErrorOrWarn(level) == level = Some("ERROR") \/ level = Some("WARN")

\* The last batch was written to the log group named by props.logGroupName.
PutToNamedLogGroup == IsSome(lastPut) /\ Get(lastPut).logGroup = stack.props.logGroupName

\* C2, as claimed: in the stack that defines the state machine, a failure
\* event of the notification function starts one execution.
C2_FailureEventStartsExecution ==
    (stack.variant = "workflow" /\ IsSome(lastRouted)
        /\ Get(lastRouted).detailType = FailureDetailType)
    => Get(lastRouted).started = 1

\* C2, amended: in the stack that defines the state machine, a success event
\* of the notification function is matched by the success rule and starts one
\* execution; a failure event is matched by the failure rule alone, which has
\* no target, and starts none.
C2_SuccessEventStartsExecution ==
    (stack.variant = "workflow" /\ IsSome(lastRouted)) =>
        LET r == Get(lastRouted)
        IN  /\ r.detailType = SuccessDetailType =>
                   (r.started = 1 /\ r.rules = {"LambdaFunctionLogSubscriptionFuncSuccessRule"})
            /\ r.detailType = FailureDetailType =>
                   (r.started = 0 /\ r.rules = {"LambdaFunctionLogSubscriptionFuncFailureRule"})

C2_Witness ==
    /\ stack.variant = "workflow"
    /\ executions = 1
    /\ lastRouted = Some([detailType |-> SuccessDetailType,
                          rules      |-> {"LambdaFunctionLogSubscriptionFuncSuccessRule"},
                          started    |-> 1])

\* C7: the subscription filter forwards a record of the subscribed log group
\* if and only if its level is ERROR or WARN; a batch with such a record
\* causes one invocation, a batch without (one INFO record, say) causes none.
C7_FilterForwardsErrorAndWarnOnly ==
    (stack.variant = "filter" /\ PutToNamedLogGroup) =>
        LET p == Get(lastPut)
        IN  /\ p.forwarded = SelectSeq(p.batch, IsErrorOrWarn)
            /\ p.invocations = (IF \E i \in 1..Len(p.batch) : IsErrorOrWarn(p.batch[i]) THEN 1 ELSE 0)
            /\ p.batch \in {<<Some("ERROR")>>, <<Some("WARN")>>} => p.invocations = 1
            /\ p.batch = <<Some("INFO")>> => (p.invocations = 0 /\ p.forwarded = <<>>)

C7_Witness ==
    /\ stack.variant = "filter"
    /\ lastPut = Some([logGroup |-> "example-function-log",
                       batch |-> <<Some("INFO"), Some("WARN")>>,
                       forwarded |-> <<Some("WARN")>>,
                       invocations |-> 1])
    /\ pending # <<>>

\* C8: in the stack that defines the state machine, a batch holding an ERROR
\* or WARN record written to the log group named by props.logGroupName leads
\* to an invocation of the notification function.
C8_WorkflowStackSubscribesLogGroup ==
    (stack.variant = "workflow" /\ PutToNamedLogGroup
        /\ \E i \in 1..Len(Get(lastPut).batch) : IsErrorOrWarn(Get(lastPut).batch[i]))
    => Get(lastPut).invocations = 1

------------------------------------------------------------------------------
(***************************************************************************)
(* Properties of executions running side by side.                          *)
(***************************************************************************)
RunEnded(e) == runs[e].pc \in {"Succeed", "Failed"}

\* The publish calls execution e has made so far, in order.
CallsOf(e) ==
    LET own == SelectSeq(calls, LAMBDA c : c.execution = e)
    IN  [i \in 1..Len(own) |-> own[i].call]

IsPrefix(s, t) == Len(s) <= Len(t) /\ s = SubSeq(t, 1, Len(s))

\* C11: two executions of the same input event, both ended, have made the
\* same sequence of publish calls, and that sequence has one call per entry.
C11_RerunPublishesNCallsAgain ==
    \A e1, e2 \in ExecutionNames :
        (e1 # e2 /\ runs[e1].input = runs[e2].input /\ RunEnded(e1) /\ RunEnded(e2)) =>
            /\ CallsOf(e1) = CallsOf(e2)
            /\ Len(CallsOf(e2)) = Len(runs[e2].input.logEvents)

------------------------------------------------------------------------------
(***************************************************************************)
(* Properties of the topic.                                                *)
(***************************************************************************)
\* The addresses given in props.notifications.emails: none when it is absent.
ConfiguredAddresses ==
    IF IsSome(topic.props.emails)
    THEN {Get(topic.props.emails)[i] : i \in 1..Len(Get(topic.props.emails))}
    ELSE {}

\* How often the pair of publish j has been handed, or is due, to address a.
Handed(a, j) ==
    CopiesIn([endpoint |-> a, publish |-> j, pair |-> accepted[j]], inbox)
        + (IF [endpoint |-> a, publish |-> j] \in topic.outstanding THEN 1 ELSE 0)

\* C12: the email subscribers of the constructed topic are the addresses of
\* props.notifications.emails (none when it is absent), and every published
\* pair goes to every one of them once and to nobody else, whatever has or has
\* not yet been delivered to the others.
C12_SubscribersAreTheConfiguredEmails ==
    topic.pc = "constructed" =>
        /\ {sub.endpoint : sub \in topic.subscriptions} = ConfiguredAddresses
        /\ \A sub \in topic.subscriptions : sub.protocol = "email"
        /\ \A j \in 1..Len(accepted) : \A a \in ConfiguredAddresses : Handed(a, j) = 1
        /\ \A d \in BagToSet(inbox) :
               /\ d.endpoint \in ConfiguredAddresses
               /\ d.publish \in 1..Len(accepted)
               /\ d.pair = accepted[d.publish]
               /\ CopiesIn(d, inbox) = 1

C12_Witness ==
    /\ topic.pc = "constructed"
    /\ topic.props.emails = Some(<<"foo@example.com", "bar@example.com">>)
    /\ Len(accepted) = 1
    /\ topic.outstanding = {[endpoint |-> "foo@example.com", publish |-> 1]}
    /\ BagToSet(inbox) = {[endpoint |-> "bar@example.com", publish |-> 1, pair |-> accepted[1]]}

------------------------------------------------------------------------------
(***************************************************************************)
(* Properties of the transitions of one execution.                         *)
(***************************************************************************)
\* The remaining-entries list $.Temp.Log.Events of document x, if present.
EventsOf(x) == IF HasEvents(x) THEN Get(x.Temp_Log).Events ELSE None

\* The length of the accumulator $.Prepare.Concatenated.StackTrace of x.
AccLen(x) ==
    IF IsSome(x.Prepare_Concatenated_StackTrace)
    THEN Len(Get(x.Prepare_Concatenated_StackTrace)) ELSE 0

\* C13: the step after SendNotification removes element 0 of the
\* remaining-entries list and leads back to CheckUntreatedLogEventDetailExist.
C13_DropStepRemovesHead ==
    [][exec.pc = "GetUntreatedMessages" =>
          /\ exec'.pc = "CheckUntreatedLogEventDetailExist"
          /\ IsSome(EventsOf(exec))
          /\ EventsOf(exec') = Some(Tail(Get(EventsOf(exec))))]_vars

\* C14: a state that takes element 0 of a list, or slices it with [1:], is
\* entered only when the list it reads is in the document and has an element
\* 0 (the presence check before it succeeded and the list has not changed).
C14_NoReadOfAbsentOrEmptyList ==
    /\ exec.pc = "GetLogEventDetail" =>
           (IsSome(EventsOf(exec)) /\ Len(Get(EventsOf(exec))) >= 1)
    /\ exec.pc \in {"GetLogEventMessageStackTraceLine", "UntreatedMessageTraceLines"} =>
           (IsSome(exec.Temp_StackTrace_Lines) /\ Len(Get(exec.Temp_StackTrace_Lines)) >= 1)
    /\ exec.pc = "GetUntreatedMessages" =>
           (IsSome(exec.TempStackTrace_Lines) /\ Len(Get(exec.TempStackTrace_Lines)) >= 1)

C16_ParseableBatchReachesSucceed ==
    (\A k \in 1..Len(LogEvents) : Parseable(LogEvents[k])) => <>(exec.pc = "Succeed")

\* C17: no transition other than Init and the one that starts the stack-trace
\* loop of an entry makes the accumulator shorter.
C17_AccumulatorNeverShrinks ==
    [][exec.pc \notin {"Init", "GetLogEventMessageStackTrace"} =>
          AccLen(exec') >= AccLen(exec)]_vars

C17_Witness ==
    /\ exec.pc = "UntreatedMessageTraceLines"
    /\ exec.Temp_StackTrace_Lines = Some(<<"frame2">>)
    /\ exec.Prepare_Concatenated_StackTrace = Some("frame1\nframe2\n")
    /\ AccLen(exec) = 14

\* C19: only GetLogEvents and the step after SendNotification change the
\* remaining-entries list; every other transition leaves it as it is.
C19_OnlyTwoStepsChangeRemainingEntries ==
    [][exec.pc \notin {"GetLogEvents", "GetUntreatedMessages"} =>
          EventsOf(exec') = EventsOf(exec)]_vars

=============================================================================
